---- MODULE Spec2Model ----
(***************************************************************************)
(* MergeDataset of deepdoctection/datasets/base.py: the facade that merges *)
(* N datasets, its MergeDataFlow builder (streaming / explicit dataflows), *)
(* buffer_datasets, split_datasets and the SplitDataFlow builder.          *)
(***************************************************************************)
EXTENDS Integers, Sequences, FiniteSets

(* ------------------------------ bounds -------------------------------- *)

\* largest number of datasets a MergeDataset is constructed from
MaxDatasets == 2
\* largest max_datapoints keyword value
MaxDatapoints == 1

(* ------------------------- optional values ---------------------------- *)

\* Python None and a present value
None == <<>>
Some(x) == <<x>>
IsNone(o) == o = <<>>
Get(o) == o[1]

(* ----------------------- external collaborators ----------------------- *)

Take(s, n) == IF n >= Len(s) THEN s ELSE SubSeq(s, 1, n)

\* keyword arguments of build / buffer_datasets: split and max_datapoints,
\* each present or absent
SplitNames == {"train", "val", "test"}
Kwargs ==
  [split : {None} \cup {Some(s) : s \in SplitNames},
   max_datapoints : {None} \cup {Some(m) : m \in 0 .. MaxDatapoints}]

\* the datapoints a dataset holds for a split, in the dataset's own order;
\* datapoint 10 * i + j is the j-th datapoint of dataset i
\* (dataset 1 holds two training datapoints, dataset 2 one, the others none)
DatasetData(i, split) ==
  IF split = "train"
  THEN (IF i = 1 THEN <<11, 12>> ELSE IF i = 2 THEN <<21>> ELSE <<>>)
  ELSE <<>>

\* build(**kwargs) of the builder of dataset i: the stream it yields
DatasetBuild(i, kwargs) ==
  LET split == IF IsNone(kwargs.split) THEN "train" ELSE Get(kwargs.split)
      data == DatasetData(i, split)
  IN IF IsNone(kwargs.max_datapoints) THEN data
     ELSE Take(data, Get(kwargs.max_datapoints))

\* the pre-built dataflows the caller owns and may pass explicitly
StreamIds == {1, 2}
\* the content of the caller's pre-built dataflow k before it is iterated
StreamData(k) == <<k>>

\* a dataflow object: a fresh one holding its items, or one of the caller's
\* pre-built dataflows (whose remaining items live in streams)
Fresh(items) == [stream |-> 0, items |-> items]
Prebuilt(k) == [stream |-> k, items |-> <<>>]

\* iterating ConcatData(parts) to exhaustion: every part in order, each part
\* yielding what it still holds; a pre-built dataflow is exhausted afterwards
RECURSIVE Drain(_, _)
Drain(parts, st) ==
  IF parts = <<>> THEN [out |-> <<>>, streams |-> st]
  ELSE LET h == Head(parts)
           mine == IF h.stream = 0 THEN h.items ELSE st[h.stream]
           st2 == IF h.stream = 0 THEN st ELSE [st EXCEPT ![h.stream] = <<>>]
           rest == Drain(Tail(parts), st2)
       IN [out |-> mine \o rest.out, streams |-> rest.streams]

\* the orders a shuffle can leave a list in
Permutations(s) ==
  LET n == Len(s)
      P == {p \in [1 .. n -> 1 .. n] : \A i, j \in 1 .. n : p[i] = p[j] => i = j}
  IN {[i \in 1 .. n |-> s[p[i]]] : p \in P}

\* CustomDataFromList(lst, max_datapoints)
CustomDataFromList(lst, max_datapoints) == Fresh(Take(lst, max_datapoints))

(* ------------------------------ state --------------------------------- *)

VARIABLES
  datasets,          \* self.datasets: the merged datasets, <<1, .., N>>
  dataflows,         \* self.dataflows: None or the tuple passed explicitly
  datapoint_list,    \* self.datapoint_list: None or the buffered list
  dataflow_builder,  \* self._dataflow_builder: MergeDataFlow or SplitDataFlow
  streams,           \* what each pre-built dataflow of the caller still holds
  last,              \* the last call on the instance and its outcome
  buffered,          \* history: a buffer_datasets call has succeeded
  dataset_categories, \* dataset.dataflow.categories of each merged dataset
  categories         \* self._dataflow_builder.categories

vars ==
  <<datasets, dataflows, datapoint_list, dataflow_builder, streams, last, buffered,
    dataset_categories, categories>>

\* outcome of a build: returned dataflow (ConcatData over parts) or the error
\* raised, and the calls made to the datasets' builders
Returned(parts, calls) == [ok |-> TRUE, err |-> "none", parts |-> parts, calls |-> calls]
Raised(err) == [ok |-> FALSE, err |-> err, parts |-> <<>>, calls |-> <<>>]

NoKwargs == [split |-> None, max_datapoints |-> None]

\* a call on the instance: the operation, whether it returned, the error it
\* raised and the keyword arguments it was given
Call(op, ok, err, kwargs) == [op |-> op, ok |-> ok, err |-> err, kwargs |-> kwargs]

(* ----------------------------- builders ------------------------------- *)

\* (a build that overlooks the dataflows passed explicitly)
MergeDataFlowBuildIgnoresExplicit(b, kwargs) ==
  Returned([i \in 1 .. Len(b.dataflow_builders) |->
              Fresh(DatasetBuild(b.dataflow_builders[i], kwargs))],
           [i \in 1 .. Len(b.dataflow_builders) |->
              <<b.dataflow_builders[i], kwargs>>])

\* (a build that prepends each dataflow to df_list instead of appending it)
MergeDataFlowBuildPrepends(b, kwargs) ==
  LET n == Len(b.dataflow_builders)
  IN IF ~IsNone(b.dataflows)
     THEN Returned([j \in 1 .. Len(Get(b.dataflows)) |-> Prebuilt(Get(b.dataflows)[j])], <<>>)
     ELSE Returned([i \in 1 .. n |->
                      Fresh(DatasetBuild(b.dataflow_builders[n + 1 - i], kwargs))],
                   [i \in 1 .. n |-> <<b.dataflow_builders[i], kwargs>>])

\* MergeDataFlow.build
MergeDataFlowBuild(b, kwargs) ==
  IF ~IsNone(b.dataflows)
  THEN Returned([j \in 1 .. Len(Get(b.dataflows)) |-> Prebuilt(Get(b.dataflows)[j])], <<>>)
  ELSE Returned([i \in 1 .. Len(b.dataflow_builders) |->
                   Fresh(DatasetBuild(b.dataflow_builders[i], kwargs))],
                [i \in 1 .. Len(b.dataflow_builders) |->
                   <<b.dataflow_builders[i], kwargs>>])

\* MergeDataset._builder
MergeBuilder(ds, dfs) ==
  [kind |-> "merge", dataflow_builders |-> ds, dataflows |-> dfs]

\* SplitDataFlow.__init__
SplitDataFlow(train, val, test) ==
  [kind |-> "split",
   split_cache |-> IF IsNone(test) THEN [train |-> train, val |-> val]
                   ELSE [train |-> train, val |-> val, test |-> Get(test)]]

\* (a build whose default split is val)
SplitDataFlowBuildDefaultVal(b, kwargs) ==
  LET split == IF IsNone(kwargs.split) THEN "val" ELSE Get(kwargs.split)
  IN IF IsNone(kwargs.max_datapoints) THEN Raised("TypeError")
     ELSE IF split \notin DOMAIN b.split_cache THEN Raised("KeyError")
     ELSE Returned(<<CustomDataFromList(b.split_cache[split], Get(kwargs.max_datapoints))>>,
                   <<>>)

\* SplitDataFlow.build
SplitDataFlowBuild(b, kwargs) ==
  LET split == IF IsNone(kwargs.split) THEN "train" ELSE Get(kwargs.split)
  IN IF IsNone(kwargs.max_datapoints) THEN Raised("TypeError")
     ELSE IF split \notin DOMAIN b.split_cache THEN Raised("KeyError")
     ELSE Returned(<<CustomDataFromList(b.split_cache[split], Get(kwargs.max_datapoints))>>,
                   <<>>)

\* self.dataflow.build(**kwargs)
BuilderBuild(b, kwargs) ==
  IF b.kind = "merge" THEN MergeDataFlowBuild(b, kwargs) ELSE SplitDataFlowBuild(b, kwargs)

(* --------------------------- split_datasets --------------------------- *)

\* ratio in halves: -0.5, 0, 0.5, 1, 1.5
Ratios == {-1, 0, 1, 2, 3}
RatioValid(ratio) == 0 <= ratio /\ ratio <= 2

\* np.random.binomial(1, ratio, n): the vectors of n draws it can return
Binomial(ratio, n) ==
  IF ratio = 0 THEN {[i \in 1 .. n |-> 0]}
  ELSE IF ratio = 2 THEN {[i \in 1 .. n |-> 1]}
  ELSE [1 .. n -> {0, 1}]

\* (a selection that collects the items from the last to the first)
RECURSIVE SelectByIndexBackwards(_, _, _)
SelectByIndexBackwards(lst, indices, v) ==
  IF lst = <<>> THEN <<>>
  ELSE SelectByIndexBackwards(Tail(lst), Tail(indices), v)
       \o (IF Head(indices) = v THEN <<Head(lst)>> ELSE <<>>)

\* [lst[i] for i in range(n) if indices[i] == v]
RECURSIVE SelectByIndex(_, _, _)
SelectByIndex(lst, indices, v) ==
  IF lst = <<>> THEN <<>>
  ELSE (IF Head(indices) = v THEN <<Head(lst)>> ELSE <<>>)
       \o SelectByIndex(Tail(lst), Tail(indices), v)

\* (a parity test taken the other way round)
RECURSIVE SelectByParityFlipped(_, _)
SelectByParityFlipped(lst, r) ==
  IF lst = <<>> THEN <<>>
  ELSE (IF r = 1 THEN <<Head(lst)>> ELSE <<>>) \o SelectByParityFlipped(Tail(lst), 1 - r)

\* [dp for id, dp in enumerate(lst) if id % 2 == r]
RECURSIVE SelectByParity(_, _)
SelectByParity(lst, r) ==
  IF lst = <<>> THEN <<>>
  ELSE (IF r = 0 THEN <<Head(lst)>> ELSE <<>>) \o SelectByParity(Tail(lst), 1 - r)

\* (a split whose val keeps the whole held-out pool when test is added)
SplitOfValKeepsPool(lst, indices, add_test) ==
  LET train_dataset == SelectByIndex(lst, indices, 0)
      held == SelectByIndex(lst, indices, 1)
  IN IF add_test
     THEN SplitDataFlow(train_dataset, held, Some(SelectByParity(held, 1)))
     ELSE SplitDataFlow(train_dataset, held, None)

\* the SplitDataFlow split_datasets builds from the buffered list and the draws
SplitOf(lst, indices, add_test) ==
  LET train_dataset == SelectByIndex(lst, indices, 0)
      held == SelectByIndex(lst, indices, 1)
  IN IF add_test
     THEN SplitDataFlow(train_dataset, SelectByParity(held, 0), Some(SelectByParity(held, 1)))
     ELSE SplitDataFlow(train_dataset, held, None)

(* ---------------------------- categories ------------------------------ *)

\* a category registry: the categories it defines and, as pairs
\* <<category, sub-category>>, the sub-categories it has for them
CategoryNames == {"a", "b"}
SubCategoryNames == {"x"}
Registries ==
  {r \in [cats : SUBSET CategoryNames, subs : SUBSET (CategoryNames \X SubCategoryNames)] :
     \A p \in r.subs : p[1] \in r.cats}

\* the categories of dataset i under Spec: dataset 1 has sub-category x for a,
\* dataset 2 defines a and b without sub-categories, the others have none
DatasetCategories(i) ==
  IF i = 1 THEN Some([cats |-> {"a"}, subs |-> {<<"a", "x">>}])
  ELSE IF i = 2 THEN Some([cats |-> {"a", "b"}, subs |-> {}])
  ELSE None

\* get_merged_categories(*registries): the union of the categories; a
\* sub-category is kept under a category iff every registry that defines the
\* category has it
GetMergedCategories(regs) ==
  LET cats == UNION {regs[i].cats : i \in DOMAIN regs}
  IN [cats |-> cats,
      subs |-> {p \in cats \X SubCategoryNames :
                  \A i \in DOMAIN regs : p[1] \in regs[i].cats => p \in regs[i].subs}]

\* (a merge of the categories of the first dataset alone)
CategoriesOfFirstOnly(dcats) ==
  LET present == SelectSeq(dcats, LAMBDA c : ~IsNone(c))
  IN GetMergedCategories([i \in 1 .. (IF present = <<>> THEN 0 ELSE 1) |-> Get(present[i])])

\* MergeDataset._categories: the merge of the categories of the datasets that
\* have any
MergedCategories(dcats) ==
  LET present == SelectSeq(dcats, LAMBDA c : ~IsNone(c))
  IN GetMergedCategories([i \in DOMAIN present |-> Get(present[i])])

\* (a split builder installed without its categories)
SplitCategoriesUnset(dcats) == None

\* self._dataflow_builder.categories = self._categories() of split_datasets
SplitCategories(dcats) == Some(MergedCategories(dcats))

(* ------------------------------ actions ------------------------------- *)

\* the fields after MergeDataset(*datasets) on n datasets with categories dcats
\* and self.datapoint_list set to dpl
Constructed(n, dcats, dpl) ==
  /\ datasets = [i \in 1 .. n |-> i]
  /\ dataflows = None
  /\ datapoint_list = dpl
  /\ dataflow_builder = MergeBuilder(datasets, None)
  /\ streams = [k \in StreamIds |-> StreamData(k)]
  /\ last = Call("init", TRUE, "none", NoKwargs)
  /\ buffered = FALSE
  /\ dataset_categories = dcats
  /\ categories = Some(MergedCategories(dcats))

\* (an __init__ that starts with an empty buffered list instead of None)
InitEmptyList ==
  \E n \in 1 .. MaxDatasets :
    Constructed(n, [i \in 1 .. n |-> DatasetCategories(i)], Some(<<>>))

\* MergeDataset.__init__ on N datasets
Init ==
  \E n \in 1 .. MaxDatasets :
    Constructed(n, [i \in 1 .. n |-> DatasetCategories(i)], None)

\* (an assert that demands more dataflows than datasets)
ExplicitAcceptedStrict(ds, dfs) == Len(ds) < Len(dfs)

\* whether the assert of explicit_dataflows passes
ExplicitAccepted(ds, dfs) == Len(ds) <= Len(dfs)

\* (a builder replaced before the assert is evaluated)
ExplicitBuilderEager(b, ds, dfs) == MergeBuilder(ds, Some(dfs))

\* self._dataflow_builder after explicit_dataflows(*dfs)
ExplicitBuilder(b, ds, dfs) ==
  IF ExplicitAccepted(ds, dfs) THEN MergeBuilder(ds, Some(dfs)) ELSE b

explicit_dataflows(dfs) ==
  /\ dataflows' = Some(dfs)
  /\ dataflow_builder' = ExplicitBuilder(dataflow_builder, datasets, dfs)
  /\ last' = IF ExplicitAccepted(datasets, dfs)
             THEN Call("explicit", TRUE, "none", NoKwargs)
             ELSE Call("explicit", FALSE, "AssertionError", NoKwargs)
  /\ categories' = IF ExplicitAccepted(datasets, dfs)
                   THEN Some(MergedCategories(dataset_categories))
                   ELSE categories
  /\ UNCHANGED <<datasets, datapoint_list, streams, buffered, dataset_categories>>

\* the lists CacheData(df, shuffle=True).get_cache() can return
CacheData(yielded) == Permutations(yielded)

\* (a buffer that does not forward its keyword arguments)
BufferBuildNoKwargs(b, kwargs) == BuilderBuild(b, NoKwargs)

\* df = self.dataflow.build(**kwargs) of buffer_datasets
BufferBuild(b, kwargs) == BuilderBuild(b, kwargs)

buffer_datasets(kwargs) ==
  LET df == BufferBuild(dataflow_builder, kwargs)
      d == Drain(df.parts, streams)
  IN IF df.ok
     THEN \E cache \in CacheData(d.out) :
            /\ datapoint_list' = Some(cache)
            /\ streams' = d.streams
            /\ last' = Call("buffer", TRUE, "none", kwargs)
            /\ buffered' = TRUE
            /\ UNCHANGED <<datasets, dataflows, dataflow_builder, dataset_categories,
                           categories>>
     ELSE /\ last' = Call("buffer", FALSE, df.err, kwargs)
          /\ UNCHANGED <<datasets, dataflows, datapoint_list, dataflow_builder,
                         streams, buffered, dataset_categories, categories>>

\* (an assert on the truth value of the list, which an empty list fails)
SplitAcceptedTruthy(dpl) == ~IsNone(dpl) /\ Get(dpl) # <<>>

\* whether the assert of split_datasets passes
SplitAccepted(dpl) == ~IsNone(dpl)

\* (a split that keeps only the train items in the buffered list)
SplitBufferKeepsTrain(dpl, indices) == Some(SelectByIndex(Get(dpl), indices, 0))

\* self.datapoint_list after split_datasets: it is read, never assigned
SplitBuffer(dpl, indices) == dpl

split_datasets(ratio, add_test) ==
  IF ~SplitAccepted(datapoint_list)
  THEN /\ last' = Call("split", FALSE, "AssertionError", NoKwargs)
       /\ UNCHANGED <<datasets, dataflows, datapoint_list, dataflow_builder, streams,
                      buffered, dataset_categories, categories>>
  ELSE IF ~RatioValid(ratio)
  THEN /\ last' = Call("split", FALSE, "ValueError", NoKwargs)
       /\ UNCHANGED <<datasets, dataflows, datapoint_list, dataflow_builder, streams,
                      buffered, dataset_categories, categories>>
  ELSE \E indices \in Binomial(ratio, Len(Get(datapoint_list))) :
         /\ dataflow_builder' = SplitOf(Get(datapoint_list), indices, add_test)
         /\ datapoint_list' = SplitBuffer(datapoint_list, indices)
         /\ categories' = SplitCategories(dataset_categories)
         /\ last' = Call("split", TRUE, "none", NoKwargs)
         /\ UNCHANGED <<datasets, dataflows, streams, buffered, dataset_categories>>

\* self.dataflow.build(**kwargs) called by the user of the dataset
build(kwargs) ==
  LET df == BuilderBuild(dataflow_builder, kwargs)
  IN /\ last' = Call("build", df.ok, df.err, kwargs)
     /\ UNCHANGED <<datasets, dataflows, datapoint_list, dataflow_builder, streams,
                    buffered, dataset_categories, categories>>

\* the tuples of distinct pre-built dataflows the caller can pass
ExplicitArgs ==
  {dfs \in UNION {[1 .. m -> StreamIds] : m \in 0 .. Cardinality(StreamIds)} :
     \A i, j \in DOMAIN dfs : dfs[i] = dfs[j] => i = j}

Next ==
  \/ \E dfs \in ExplicitArgs : explicit_dataflows(dfs)
  \/ \E kwargs \in Kwargs : buffer_datasets(kwargs)
  \/ \E ratio \in Ratios, add_test \in BOOLEAN : split_datasets(ratio, add_test)
  \/ \E kwargs \in Kwargs : build(kwargs)

Spec == Init /\ [][Next]_vars

\* construction from datasets with any categories (or none), then the calls
\* that recompute the categories or read the builder
CategoryInputs == {None} \cup {Some(r) : r \in Registries}
InitCategories ==
  \E n \in 1 .. MaxDatasets :
    \E dcats \in [1 .. n -> CategoryInputs] : Constructed(n, dcats, None)
NextCategories ==
  \/ \E dfs \in ExplicitArgs : explicit_dataflows(dfs)
  \/ build(NoKwargs)
SpecCategories == InitCategories /\ [][NextCategories]_vars

(* ---------------------------- vocabulary ------------------------------ *)

\* the mode of the facade: streaming, explicit (dataflows assigned) or split
Mode ==
  IF dataflow_builder.kind = "split" THEN "split"
  ELSE IF IsNone(dataflow_builder.dataflows) THEN "streaming" ELSE "explicit"

Count(s, x) == Cardinality({i \in DOMAIN s : s[i] = x})
Items(s) == {s[i] : i \in DOMAIN s}
SameBag(a, b) ==
  /\ Len(a) = Len(b)
  /\ \A x \in Items(a) \cup Items(b) : Count(a, x) = Count(b, x)

\* the dataset a datapoint of the datasets' streams comes from
Owner(dp) == dp \div 10

\* the items of lst at the positions pos, in the order of pos
At(lst, pos) == [j \in 1 .. Len(pos) |-> lst[pos[j]]]
\* the positions of 1 .. n that a maps to k, ascending
PositionsOf(a, n, k) == SelectSeq([i \in 1 .. n |-> i], LAMBDA i : a[i] = k)

Held == DOMAIN dataflow_builder.split_cache
SplitArg(kwargs) == IF IsNone(kwargs.split) THEN "train" ELSE Get(kwargs.split)

(* ------------------------------ claims -------------------------------- *)

\* C1: while no buffer_datasets call has succeeded (explicit_dataflows called
\* or not), every split_datasets call fails with the assertion error, whatever
\* its ratio and add_test, and the facade's builder is not the split builder.
C1_SplitNeedsBuffer ==
  ~buffered =>
    /\ dataflow_builder.kind # "split"
    /\ last.op = "split" => (~last.ok /\ last.err = "AssertionError")

C1_Witness ==
  /\ ~buffered
  /\ last.op = "split"
  /\ ~last.ok
  /\ ~IsNone(dataflows)
  /\ Mode = "explicit"

C3_ExplicitBuild ==
  /\ (last.op = "explicit" /\ last.ok) =>
       \A kwargs \in Kwargs :
         LET df == BuilderBuild(dataflow_builder, kwargs)
         IN /\ df.ok
            /\ df.calls = <<>>
            /\ df.parts = [j \in 1 .. Len(Get(dataflows)) |-> Prebuilt(Get(dataflows)[j])]
  /\ Mode = "explicit" =>
       /\ \A kwargs \in Kwargs :
            LET df == BuilderBuild(dataflow_builder, kwargs)
            IN /\ df.ok
               /\ df.calls = <<>>
               /\ Len(df.parts) = Len(Get(dataflow_builder.dataflows))
               /\ \A j \in DOMAIN df.parts :
                    df.parts[j].stream = Get(dataflow_builder.dataflows)[j]
       /\ last.op = "build" => last.ok

C3_Witness ==
  /\ Mode = "explicit"
  /\ last.op = "build"
  /\ last.ok
  /\ ~IsNone(last.kwargs.split)
  /\ ~IsNone(last.kwargs.max_datapoints)
  /\ Get(dataflow_builder.dataflows) = <<2, 1>>

\* C4: in streaming mode build(kwargs) calls the builder of every dataset once,
\* in dataset order, each with the very kwargs given, and the stream returned
\* yields the datapoints of dataset i before those of dataset i + 1, the
\* datapoints of each dataset in the order of that dataset's own stream.
C4_StreamingBuild ==
  Mode = "streaming" =>
    /\ \A kwargs \in Kwargs :
         LET df == BuilderBuild(dataflow_builder, kwargs)
             y == Drain(df.parts, streams).out
         IN /\ df.ok
            /\ Len(df.calls) = Len(datasets)
            /\ \A i \in DOMAIN df.calls : df.calls[i] = <<datasets[i], kwargs>>
            /\ \A p, q \in DOMAIN y : p < q => Owner(y[p]) <= Owner(y[q])
            /\ \A i \in DOMAIN datasets :
                 SelectSeq(y, LAMBDA dp : Owner(dp) = datasets[i])
                   = DatasetBuild(datasets[i], kwargs)
            /\ \A p \in DOMAIN y : Owner(y[p]) \in Items(datasets)
    /\ last.op = "build" => last.ok

C4_Witness ==
  /\ Mode = "streaming"
  /\ last.op = "build"
  /\ last.ok
  /\ Len(datasets) = 2
  /\ Drain(BuilderBuild(dataflow_builder, last.kwargs).parts, streams).out = <<11, 12, 21>>

\* C5: after a successful split_datasets the splits are a disjoint cover of the
\* buffered list: every buffered position belongs to exactly one of the splits
\* held, each split holding the items of its positions, so the sizes of the
\* splits sum to the size of the buffered list.
C5_DisjointCover ==
  (last.op = "split" /\ last.ok) =>
    /\ dataflow_builder.kind = "split"
    /\ LET lst == Get(datapoint_list)
           n == Len(lst)
           cache == dataflow_builder.split_cache
       IN /\ \E a \in [1 .. n -> Held] :
               \A k \in Held : cache[k] = At(lst, PositionsOf(a, n, k))
          /\ Len(cache["train"]) + Len(cache["val"])
               + (IF "test" \in Held THEN Len(cache["test"]) ELSE 0) = n

C5_Witness ==
  /\ last.op = "split"
  /\ last.ok
  /\ Held = {"train", "val", "test"}
  /\ \A k \in Held : Len(dataflow_builder.split_cache[k]) = 1

\* C6: after a successful split_datasets with add_test, for the draws made,
\* train holds the items drawn 0 and, of the held-out pool (the items drawn 1,
\* in buffered order), val holds positions 0, 2, 4, .. and test positions
\* 1, 3, 5, ..; so len(val) - len(test) is 0 or 1.
C6_ParitySplit ==
  (last.op = "split" /\ last.ok /\ "test" \in Held) =>
    LET lst == Get(datapoint_list)
        cache == dataflow_builder.split_cache
        val == cache["val"]
        test == cache["test"]
    IN /\ Len(val) - Len(test) \in {0, 1}
       /\ \E indices \in [1 .. Len(lst) -> {0, 1}] :
            LET pool == At(lst, PositionsOf(indices, Len(lst), 1))
            IN /\ cache["train"] = At(lst, PositionsOf(indices, Len(lst), 0))
               /\ Len(val) + Len(test) = Len(pool)
               /\ \A k \in DOMAIN val : val[k] = pool[2 * k - 1]
               /\ \A k \in DOMAIN test : test[k] = pool[2 * k]

C6_Witness ==
  /\ last.op = "split"
  /\ last.ok
  /\ "test" \in Held
  /\ Len(dataflow_builder.split_cache["val"]) = 2
  /\ Len(dataflow_builder.split_cache["test"]) = 1

\* C7: after a successful split_datasets the split builder holds train and val
\* (val being the whole held-out pool) or train, val and test, and a build
\* naming a split it does not hold fails with a lookup error (KeyError).
C7_UnknownSplitLookupError ==
  Mode = "split" =>
    /\ Held \in {{"train", "val"}, {"train", "val", "test"}}
    /\ \A kwargs \in Kwargs :
         SplitArg(kwargs) \notin Held =>
           LET df == BuilderBuild(dataflow_builder, kwargs)
           IN ~df.ok /\ df.err = "KeyError"
    /\ (last.op = "build" /\ SplitArg(last.kwargs) \notin Held) =>
         (~last.ok /\ last.err = "KeyError")

\* C8: in split mode build(split, max_datapoints) on a split held returns a
\* stream over the first max_datapoints items of that split, and the whole
\* split when max_datapoints is absent.
C8_SplitBuildTruncates ==
  Mode = "split" =>
    \A kwargs \in Kwargs :
      SplitArg(kwargs) \in Held =>
        LET df == BuilderBuild(dataflow_builder, kwargs)
            whole == dataflow_builder.split_cache[SplitArg(kwargs)]
        IN /\ df.ok
           /\ Drain(df.parts, streams).out =
                IF IsNone(kwargs.max_datapoints) THEN whole
                ELSE Take(whole, Get(kwargs.max_datapoints))

\* C9 as claimed: once the facade's builder is the split builder, it is the
\* split builder after every further call.
C9_SplitModeTerminal == [][dataflow_builder.kind = "split" =>
                            dataflow_builder'.kind = "split"]_vars

\* C9 as amended: the split builder stays the facade's builder over every build,
\* buffer_datasets, split_datasets and failed explicit_dataflows call; only an
\* explicit_dataflows call that succeeds replaces it, by the concatenating
\* builder over the dataflows given (explicit-dataflow mode, never streaming).
C9_SplitModeLeftOnlyByExplicit ==
  [][dataflow_builder.kind = "split" =>
       \/ dataflow_builder'.kind = "split"
       \/ /\ last'.op = "explicit"
          /\ last'.ok
          /\ dataflow_builder'.kind = "merge"
          /\ dataflow_builder'.dataflows = dataflows'
          /\ ~IsNone(dataflows')]_vars

C9_Witness ==
  /\ Mode = "split"
  /\ last.op = "explicit"
  /\ ~last.ok

\* C10: a buffer_datasets(kwargs) that succeeds in streaming or explicit-dataflow
\* mode leaves as buffered list a permutation of what the stream build(kwargs)
\* returns yields: the same datapoints with the same multiplicities, the same
\* length.
C10_BufferIsPermutation ==
  [][\A kwargs \in Kwargs :
       (/\ dataflow_builder.kind = "merge"
        /\ last'.op = "buffer"
        /\ last'.ok
        /\ last'.kwargs = kwargs) =>
         /\ ~IsNone(datapoint_list')
         /\ SameBag(Get(datapoint_list'),
                    Drain(BuilderBuild(dataflow_builder, kwargs).parts, streams).out)]_vars

C10_Witness ==
  /\ last.op = "buffer"
  /\ last.ok
  /\ Mode = "streaming"
  /\ ~IsNone(last.kwargs.max_datapoints)
  /\ datapoint_list = Some(<<21, 11>>)

\* C11: the categories of the facade's stream builder are set at construction
\* and are the same after every explicit_dataflows, buffer_datasets,
\* split_datasets and build call, on the builders that replace the first too.
C11_CategoriesConstant ==
  /\ ~IsNone(categories)
  /\ [][categories' = categories /\ ~IsNone(categories')]_vars

C11_Witness ==
  /\ Mode = "split"
  /\ ~IsNone(dataflows)
  /\ categories = Some([cats |-> {"a", "b"}, subs |-> {}])

\* C12 as claimed: in split mode a build call that names no split is rejected.
C12_SplitRequired ==
  Mode = "split" =>
    \A kwargs \in Kwargs :
      IsNone(kwargs.split) => ~BuilderBuild(dataflow_builder, kwargs).ok

\* C12 as amended: in split mode the split name is optional; a build call that
\* names no split does exactly what the same call with split = "train" does.
C12_SplitDefaultsToTrain ==
  Mode = "split" =>
    /\ \A kwargs \in Kwargs :
         IsNone(kwargs.split) =>
           BuilderBuild(dataflow_builder, kwargs)
             = BuilderBuild(dataflow_builder, [kwargs EXCEPT !.split = Some("train")])
    /\ \A m \in 0 .. MaxDatapoints :
         LET df == BuilderBuild(dataflow_builder, [split |-> None, max_datapoints |-> Some(m)])
         IN /\ df.ok
            /\ Drain(df.parts, streams).out = Take(dataflow_builder.split_cache["train"], m)

C12_Witness ==
  /\ Mode = "split"
  /\ last.op = "build"
  /\ last.ok
  /\ IsNone(last.kwargs.split)
  /\ last.kwargs.max_datapoints = Some(1)
  /\ dataflow_builder.split_cache["train"] # <<>>
  /\ dataflow_builder.split_cache["val"] # <<>>

\* C13 as claimed: in split mode every buffer_datasets call fails and leaves the
\* buffered list as it was.
C13_NoBufferInSplitMode ==
  [][(dataflow_builder.kind = "split" /\ last'.op = "buffer") =>
       (~last'.ok /\ datapoint_list' = datapoint_list)]_vars

\* C13 as amended: in split mode buffer_datasets(kwargs) fails, leaving the
\* buffered list as it was, exactly when the split builder's build(kwargs)
\* fails (max_datapoints absent, or a split that is not held); otherwise it
\* succeeds and replaces the buffered list by a permutation of the first
\* max_datapoints items of the split named (train by default).
C13_BufferInSplitModeFollowsBuild ==
  [][\A kwargs \in Kwargs :
       (/\ dataflow_builder.kind = "split"
        /\ last'.op = "buffer"
        /\ last'.kwargs = kwargs) =>
         LET fails == IsNone(kwargs.max_datapoints) \/ SplitArg(kwargs) \notin Held
         IN /\ last'.ok <=> ~fails
            /\ fails => datapoint_list' = datapoint_list
            /\ ~fails =>
                 /\ ~IsNone(datapoint_list')
                 /\ SameBag(Get(datapoint_list'),
                            Take(dataflow_builder.split_cache[SplitArg(kwargs)],
                                 Get(kwargs.max_datapoints)))
            /\ dataflow_builder' = dataflow_builder]_vars

C13_Witness ==
  /\ Mode = "split"
  /\ last.op = "buffer"
  /\ last.ok
  /\ datapoint_list = Some(<<12>>)
  /\ Len(dataflow_builder.split_cache["train"]) = 2

C15_OnlyBufferChangesBuffer ==
  /\ IsNone(datapoint_list)
  /\ [][/\ last'.op # "buffer" => datapoint_list' = datapoint_list
        /\ (last'.op = "split" /\ last'.ok) =>
             /\ dataflow_builder'.kind = "split"
             /\ Len(dataflow_builder'.split_cache["train"])
                  + Len(dataflow_builder'.split_cache["val"])
                  + (IF "test" \in DOMAIN dataflow_builder'.split_cache
                     THEN Len(dataflow_builder'.split_cache["test"]) ELSE 0)
                  = Len(Get(datapoint_list))]_vars

C15_Witness ==
  /\ last.op = "split"
  /\ last.ok
  /\ Len(Get(datapoint_list)) = 3
  /\ Len(dataflow_builder.split_cache["val"]) = 3

\* C16 as claimed: a buffer_datasets call that follows a buffer_datasets call
\* with the same kwargs, in streaming or explicit-dataflow mode, leaves a
\* buffered list holding the same multiset of datapoints as the first.
C16_BufferRepeatable ==
  [][\A kwargs \in Kwargs :
       (/\ dataflow_builder.kind = "merge"
        /\ last.op = "buffer" /\ last.ok /\ last.kwargs = kwargs
        /\ last'.op = "buffer" /\ last'.ok /\ last'.kwargs = kwargs) =>
         SameBag(Get(datapoint_list), Get(datapoint_list'))]_vars

\* C16 as amended: in streaming mode the second call drains fresh streams of
\* the datasets' builders and its buffered list holds the same multiset as the
\* first; in explicit-dataflow mode build returns the same dataflows again,
\* which the first call exhausted, so with single-pass streams the second
\* buffered list is empty.
C16_BufferRepeatableWhenStreaming ==
  [][\A kwargs \in Kwargs :
       (/\ dataflow_builder.kind = "merge"
        /\ last.op = "buffer" /\ last.ok /\ last.kwargs = kwargs
        /\ last'.op = "buffer" /\ last'.ok /\ last'.kwargs = kwargs) =>
         IF IsNone(dataflow_builder.dataflows)
         THEN SameBag(Get(datapoint_list), Get(datapoint_list'))
         ELSE datapoint_list' = Some(<<>>)]_vars

C16_Witness ==
  /\ Mode = "explicit"
  /\ last.op = "buffer"
  /\ last.ok
  /\ datapoint_list = Some(<<>>)
  /\ \A k \in StreamIds : streams[k] = <<>>

\* C17: when the buffered list exists and is empty, split_datasets succeeds for
\* every ratio in [0, 1] and both add_test values, installs the split builder,
\* and every split it holds is empty.
C17_EmptyBufferSplits ==
  [][\A ratio \in Ratios, add_test \in BOOLEAN :
       (/\ datapoint_list = Some(<<>>)
        /\ RatioValid(ratio)
        /\ split_datasets(ratio, add_test)) =>
         /\ last'.ok
         /\ dataflow_builder'.kind = "split"
         /\ DOMAIN dataflow_builder'.split_cache =
              (IF add_test THEN {"train", "val", "test"} ELSE {"train", "val"})
         /\ \A k \in DOMAIN dataflow_builder'.split_cache :
              dataflow_builder'.split_cache[k] = <<>>]_vars

C17_Witness ==
  /\ datapoint_list = Some(<<>>)
  /\ last.op = "split"
  /\ last.ok
  /\ Held = {"train", "val", "test"}
  /\ \A k \in Held : dataflow_builder.split_cache[k] = <<>>

\* C18: an explicit_dataflows call that fails leaves the facade's stream
\* builder as it was: every build, and so every buffer_datasets, does after it
\* what it did before it (streaming stays streaming, an earlier assignment
\* stays in force, split mode stays split mode).
C18_FailedExplicitKeepsBuilder ==
  [][(last'.op = "explicit" /\ ~last'.ok) =>
       /\ dataflow_builder' = dataflow_builder
       /\ \A kwargs \in Kwargs :
            BuilderBuild(dataflow_builder', kwargs) = BuilderBuild(dataflow_builder, kwargs)
       /\ streams' = streams
       /\ datapoint_list' = datapoint_list
       /\ categories' = categories]_vars

C18_Witness ==
  /\ last.op = "explicit"
  /\ ~last.ok
  /\ Mode = "explicit"
  /\ dataflow_builder.dataflows = Some(<<2, 1>>)
  /\ dataflows = Some(<<1>>)

\* C19: after a successful split_datasets every split is a subsequence of the
\* buffered list: its items are the items at ascending buffered positions.
C19_SplitsAreSubsequences ==
  (last.op = "split" /\ last.ok) =>
    LET lst == Get(datapoint_list)
        n == Len(lst)
    IN \A k \in Held :
         \E keep \in [1 .. n -> BOOLEAN] :
           dataflow_builder.split_cache[k] = At(lst, PositionsOf(keep, n, TRUE))

C19_Witness ==
  /\ last.op = "split"
  /\ last.ok
  /\ Get(datapoint_list) = <<21, 12, 11>>
  /\ dataflow_builder.split_cache["train"] = <<21, 11>>

====
